---------------------------- MODULE Spec2Model ----------------------------
(***************************************************************************)
(* Pass the Pigs: the game-state engine of the React component App         *)
(* (src/unnamed/part_001, the most complete variant of src/src/App.tsx).   *)
(*                                                                         *)
(* The state is the GameState object held by useLocalState together with   *)
(* the component's `rolling` / `anticipating` flags and the roll() calls   *)
(* that are suspended at one of their two awaits.  Every handler is one    *)
(* action; a handler whose early return fires leaves the state as it is.   *)
(* currentIndex and finalLeaderIndex are 0-based as in the source;         *)
(* players[i + 1] is the source's players[i].                              *)
(* Not modelled: timestamp (Date.now()), sounds, particles, confetti and   *)
(* the display-only settings (fastRollMode included: every roll waits the  *)
(* same time at each await).                                               *)
(***************************************************************************)
EXTENDS Integers, Sequences, FiniteSets, TLC

VARIABLES
    started,            \* GameState.started
    target,             \* GameState.target
    players,            \* GameState.players: sequence of [id, name, score]
    currentIndex,       \* GameState.currentIndex (0-based)
    turnPoints,         \* GameState.turnPoints
    history,            \* GameState.history: the rolls of the turn in progress
    scoreHistory,       \* GameState.scoreHistory
    currentTurnNumber,  \* GameState.currentTurnNumber
    weights,            \* GameState.settings.weights
    finalRound,         \* GameState.finalRound
    finalLeaderIndex,   \* GameState.finalLeaderIndex (NoIndex models null)
    finalLeaderScore,   \* GameState.finalLeaderScore
    finalTurns,         \* GameState.finalTurns: [isNull, m: id -> BOOLEAN]
    needsToPassPigs,    \* GameState.needsToPassPigs
    rolling,            \* useState(false): rolling
    anticipating,       \* useState(false): anticipating
    pending,            \* roll() calls suspended at an await
    rolled,             \* rolls resolved and roster edits since the last reset
                        \* (bounds the model)
    last                \* the handler that ran last, and whether it returned early
                        \* (for load, also the stored item it read)

game == <<started, target, players, currentIndex, turnPoints, history,
          scoreHistory, currentTurnNumber, weights, finalRound,
          finalLeaderIndex, finalLeaderScore, finalTurns, needsToPassPigs>>

vars == <<started, target, players, currentIndex, turnPoints, history,
          scoreHistory, currentTurnNumber, weights, finalRound,
          finalLeaderIndex, finalLeaderScore, finalTurns, needsToPassPigs,
          rolling, anticipating, pending, rolled, last>>

---------------------------------------------------------------------------
(* Bounds of the model *)

\* most players a match is set up with
MaxPlayers == 3

\* most rolls, turn endings and roster edits of one match (from a reset to
\* the next)
MaxEvents == 4

\* most roll() calls suspended at the same time
MaxPending == 1

\* most rolls of the roll bench (SpecRoll)
MaxRolls == 2

---------------------------------------------------------------------------
(* Poses, pose values and scoring *)

PoseOrder ==
    <<"Sider-Left", "Sider-Right", "Razorback", "Trotter", "Snouter", "Leaning Jowler">>

PigPose == {PoseOrder[i] : i \in 1..Len(PoseOrder)}

POSE_VALUES ==
    [p \in PigPose |->
        CASE p = "Sider-Left" -> 0
          [] p = "Sider-Right" -> 0
          [] p = "Razorback" -> 5
          [] p = "Trotter" -> 5
          [] p = "Snouter" -> 10
          [] p = "Leaning Jowler" -> 15]

isSider(p) == p = "Sider-Left" \/ p = "Sider-Right"

\* variant: two identical non-siders scored as their plain sum
scorePairNoDouble(a, b) ==
    IF (a = "Sider-Left" /\ b = "Sider-Right") \/ (a = "Sider-Right" /\ b = "Sider-Left")
    THEN [points |-> 0, event |-> <<"Pig Out", " - turn ends">>]
    ELSE IF (a = "Sider-Left" /\ b = "Sider-Left") \/ (a = "Sider-Right" /\ b = "Sider-Right")
    THEN [points |-> 1, event |-> <<"Sider (same sides)">>]
    ELSE [points |-> POSE_VALUES[a] + POSE_VALUES[b], event |-> <<a, " + ", b>>]

\* variant: the one-sider rule reading the value of the first pig in both orders
scorePairFirstPig(a, b) ==
    IF (a = "Sider-Left" /\ b = "Sider-Right") \/ (a = "Sider-Right" /\ b = "Sider-Left")
    THEN [points |-> 0, event |-> <<"Pig Out", " - turn ends">>]
    ELSE IF (a = "Sider-Left" /\ b = "Sider-Left") \/ (a = "Sider-Right" /\ b = "Sider-Right")
    THEN [points |-> 1, event |-> <<"Sider (same sides)">>]
    ELSE IF isSider(a) # isSider(b)
    THEN [points |-> POSE_VALUES[a], event |-> <<a, " (+", ToString(POSE_VALUES[a]), ")">>]
    ELSE IF a = b
    THEN [points |-> 2 * (POSE_VALUES[a] + POSE_VALUES[b]), event |-> <<"Double ", a>>]
    ELSE [points |-> POSE_VALUES[a] + POSE_VALUES[b], event |-> <<a, " + ", b>>]

\* variant: the one-sider label naming the first pig in both orders
scorePairLabelFirstPig(a, b) ==
    IF (a = "Sider-Left" /\ b = "Sider-Right") \/ (a = "Sider-Right" /\ b = "Sider-Left")
    THEN [points |-> 0, event |-> <<"Pig Out", " - turn ends">>]
    ELSE IF (a = "Sider-Left" /\ b = "Sider-Left") \/ (a = "Sider-Right" /\ b = "Sider-Right")
    THEN [points |-> 1, event |-> <<"Sider (same sides)">>]
    ELSE IF isSider(a) # isSider(b)
    THEN [points |-> POSE_VALUES[a] + POSE_VALUES[b],
          event |-> <<a, " (+", ToString(POSE_VALUES[a] + POSE_VALUES[b]), ")">>]
    ELSE IF a = b
    THEN [points |-> 2 * (POSE_VALUES[a] + POSE_VALUES[b]),
          event |-> <<"Double ", a, " (+", ToString(2 * (POSE_VALUES[a] + POSE_VALUES[b])), ")">>]
    ELSE [points |-> POSE_VALUES[a] + POSE_VALUES[b],
          event |-> <<a, " + ", b, " (+", ToString(POSE_VALUES[a] + POSE_VALUES[b]), ")">>]

\* The event label is kept as the sequence of the pieces the template
\* literal is built from; startsWith("Pig Out") reads the first piece (the
\* dash of the Pig Out label is written in ASCII).
scorePair(a, b) ==
    IF (a = "Sider-Left" /\ b = "Sider-Right") \/ (a = "Sider-Right" /\ b = "Sider-Left")
    THEN [points |-> 0, event |-> <<"Pig Out", " - turn ends">>]
    ELSE IF (a = "Sider-Left" /\ b = "Sider-Left") \/ (a = "Sider-Right" /\ b = "Sider-Right")
    THEN [points |-> 1, event |-> <<"Sider (same sides)">>]
    ELSE IF isSider(a) /\ ~isSider(b)
    THEN [points |-> POSE_VALUES[b],
          event |-> <<b, " (+", ToString(POSE_VALUES[b]), ")">>]
    ELSE IF ~isSider(a) /\ isSider(b)
    THEN [points |-> POSE_VALUES[a],
          event |-> <<a, " (+", ToString(POSE_VALUES[a]), ")">>]
    ELSE IF a = b
    THEN LET base == POSE_VALUES[a] + POSE_VALUES[b]
         IN  [points |-> base * 2,
              event |-> <<"Double ", a, " (+", ToString(base * 2), ")">>]
    ELSE LET sum == POSE_VALUES[a] + POSE_VALUES[b]
         IN  [points |-> sum,
              event |-> <<a, " + ", b, " (+", ToString(sum), ")">>]

startsWithPigOut(event) == event[1] = "Pig Out"

---------------------------------------------------------------------------
(* The weighted sampler *)

Max(x, y) == IF x >= y THEN x ELSE y

RECURSIVE SumWeights(_, _)
SumWeights(w, i) ==
    IF i = 0 THEN 0 ELSE SumWeights(w, i - 1) + Max(0, w[PoseOrder[i]])

total(w) == SumWeights(w, Len(PoseOrder))

\* Math.random() * total lies in [0, total).  With integer weights the walk
\* below only distinguishes the integers and the open intervals between
\* them, so a draw is given in half units: r2 = 2 * r, r2 \in 0 .. 2*total-1
\* (r2 = 0 when total = 0).
Draws(w) == IF total(w) = 0 THEN {0} ELSE 0 .. (2 * total(w) - 1)

RECURSIVE Walk(_, _, _)
Walk(w, r2, i) ==
    IF i > Len(PoseOrder)
    THEN PoseOrder[Len(PoseOrder)]
    ELSE LET r == r2 - 2 * Max(0, w[PoseOrder[i]])
         IN  IF r <= 0 THEN PoseOrder[i] ELSE Walk(w, r, i + 1)

randWeighted(w, r2) == Walk(w, r2, 1)

\* the poses randWeighted can return under w, over every draw
Sampled(w) == {randWeighted(w, r2) : r2 \in Draws(w)}

---------------------------------------------------------------------------
(* Helpers on the state *)

\* null of finalLeaderIndex
NoIndex == -1

NullTurns == [isNull |-> TRUE, m |-> <<>>]

\* turns[k] = v on a JavaScript object: adds the key when it is missing
SetKey(m, k, v) == [x \in (DOMAIN m) \cup {k} |-> IF x = k THEN v ELSE m[x]]

Ids(ps) == {ps[i].id : i \in 1..Len(ps)}

\* crypto.randomUUID(): an id no player of the list carries
FreshId(used) == CHOOSE k \in 1..(Cardinality(used) + 1) : k \notin used

finalDone ==
    finalRound /\ ~finalTurns.isNull /\ \A k \in DOMAIN finalTurns.m : finalTurns.m[k]

\* players.reduce((best, p) => (!best || p.score > best.score ? p : best), null):
\* the index (1-based) of the first player no earlier player ties or beats
\* and no later player beats; 0 models null.
\* variant: the reducer without its `!best ||` seed
RECURSIVE ReduceNoSeed(_, _, _)
ReduceNoSeed(ps, i, best) ==
    IF i > Len(ps) THEN best
    ELSE ReduceNoSeed(ps, i + 1, IF best # 0 /\ ps[i].score > ps[best].score THEN i ELSE best)

\* variant: the reducer with >= in place of >
RECURSIVE ReduceLastTie(_, _, _)
ReduceLastTie(ps, i, best) ==
    IF i > Len(ps) THEN best
    ELSE ReduceLastTie(ps, i + 1, IF best = 0 \/ ps[i].score >= ps[best].score THEN i ELSE best)

RECURSIVE Reduce(_, _, _)
Reduce(ps, i, best) ==
    IF i > Len(ps) THEN best
    ELSE Reduce(ps, i + 1, IF best = 0 \/ ps[i].score > ps[best].score THEN i ELSE best)

winner == IF finalDone THEN Reduce(players, 1, 0) ELSE 0

me == players[currentIndex + 1]

\* variant: the rotation without `% s.players.length`
nextIndexNoWrap(i, n) == i + 1

nextIndexOf(i, n) == (i + 1) % n

\* variant: the counter never incremented
nextTurnNumberNoWrap(nextIndex) == currentTurnNumber

\* variant: the counter incremented at every turn ending
nextTurnNumberEveryTurn(nextIndex) == currentTurnNumber + 1

nextTurnNumber(nextIndex) ==
    IF nextIndex = 0 THEN currentTurnNumber + 1 ELSE currentTurnNumber

\* rolls (resolved or suspended), turn endings and roster edits of the
\* match so far
Events == rolled + Len(pending) + Len(scoreHistory)

---------------------------------------------------------------------------
(* Initial state: defaultState after setup.  The match is set up with 2 to *)
(* MaxPlayers players (addPlayer), the smallest target the target input    *)
(* accepts, and outcome weights that leave three poses in play.            *)

\* Math.max(10, ...) of the target input
MinTarget == 10

SetupWeights ==
    [p \in PigPose |-> IF p \in {"Sider-Left", "Sider-Right", "Razorback"} THEN 1 ELSE 0]

defaultPlayers(n) == [i \in 1..n |-> [id |-> i, name |-> i, score |-> 0]]

Init ==
    /\ started = FALSE
    /\ target = MinTarget
    /\ \E n \in 2..MaxPlayers : players = defaultPlayers(n)
    /\ currentIndex = 0
    /\ turnPoints = 0
    /\ history = <<>>
    /\ scoreHistory = <<>>
    /\ currentTurnNumber = 1
    /\ weights = SetupWeights
    /\ finalRound = FALSE
    /\ finalLeaderIndex = NoIndex
    /\ finalLeaderScore = 0
    /\ finalTurns = NullTurns
    /\ needsToPassPigs = FALSE
    /\ rolling = FALSE
    /\ anticipating = FALSE
    /\ pending = <<>>
    /\ rolled = 0
    /\ last = [op |-> "init", ran |-> TRUE]

---------------------------------------------------------------------------
(* startGame and resetGame *)

\* variant: a start that spreads defaultState's turn fields over the state
startGameFreshTurn ==
    /\ started' = TRUE
    /\ turnPoints' = 0
    /\ history' = <<>>
    /\ last' = [op |-> "startGame", ran |-> TRUE]
    /\ UNCHANGED <<target, players, currentIndex, scoreHistory,
                   currentTurnNumber, weights, finalRound, finalLeaderIndex,
                   finalLeaderScore, finalTurns, needsToPassPigs,
                   rolling, anticipating, pending, rolled>>

startGame ==
    /\ started' = TRUE
    /\ last' = [op |-> "startGame", ran |-> TRUE]
    /\ UNCHANGED <<target, players, currentIndex, turnPoints, history, scoreHistory,
                   currentTurnNumber, weights, finalRound, finalLeaderIndex,
                   finalLeaderScore, finalTurns, needsToPassPigs,
                   rolling, anticipating, pending, rolled>>

\* the players of a reset: two new players with new ids (hard), or the same
\* players with score 0 (soft)
\* variant: the soft reset without `score: 0`
resetPlayersKeepScores(hard) ==
    IF hard
    THEN LET id1 == FreshId(Ids(players))
             id2 == FreshId(Ids(players) \cup {id1})
         IN  <<[id |-> id1, name |-> 1, score |-> 0], [id |-> id2, name |-> 2, score |-> 0]>>
    ELSE players

resetPlayers(hard) ==
    IF hard
    THEN LET id1 == FreshId(Ids(players))
             id2 == FreshId(Ids(players) \cup {id1})
         IN  <<[id |-> id1, name |-> 1, score |-> 0], [id |-> id2, name |-> 2, score |-> 0]>>
    ELSE [i \in 1..Len(players) |-> [players[i] EXCEPT !.score = 0]]

resetGame(hard) ==
    /\ players' = resetPlayers(hard)
    /\ started' = FALSE
    /\ currentIndex' = 0
    /\ turnPoints' = 0
    /\ history' = <<>>
    /\ scoreHistory' = <<>>
    /\ currentTurnNumber' = 1
    /\ finalRound' = FALSE
    /\ finalLeaderIndex' = NoIndex
    /\ finalLeaderScore' = 0
    /\ finalTurns' = NullTurns
    /\ needsToPassPigs' = FALSE
    /\ last' = [op |-> IF hard THEN "resetHard" ELSE "resetSoft", ran |-> TRUE]
    /\ rolled' = 0
    /\ UNCHANGED <<target, weights, rolling, anticipating, pending>>

---------------------------------------------------------------------------
(* roll: the call up to its first await, the continuation between the two  *)
(* awaits, and the continuation after the second await                     *)

rollReturnsEarly == rolling \/ winner # 0

\* what the closure of a roll() call holds of the render it was made in
rollClosure == [weights |-> weights, needsToPassPigs |-> needsToPassPigs]

rollRequest ==
    IF rollReturnsEarly
    THEN /\ last' = [op |-> "roll", ran |-> FALSE]
         /\ UNCHANGED <<game, rolling, anticipating, pending, rolled>>
    ELSE /\ Events < MaxEvents
         /\ Len(pending) < MaxPending
         /\ anticipating' = TRUE
         /\ pending' = Append(pending, [stage |-> "anticipating", state |-> rollClosure])
         /\ last' = [op |-> "roll", ran |-> TRUE]
         /\ UNCHANGED <<game, rolling, rolled>>

\* Both awaits wait the same time in every call, so the timers fire in the
\* order of the calls: the oldest call still in its first await continues.
firstAnticipating ==
    CHOOSE i \in 1..Len(pending) :
        /\ pending[i].stage = "anticipating"
        /\ \A j \in 1..(i - 1) : pending[j].stage # "anticipating"

rollMid ==
    /\ \E i \in 1..Len(pending) : pending[i].stage = "anticipating"
    /\ anticipating' = FALSE
    /\ rolling' = TRUE
    /\ pending' = [pending EXCEPT ![firstAnticipating].stage = "rolling"]
    /\ last' = [op |-> "rollMid", ran |-> TRUE]
    /\ UNCHANGED <<game, rolled>>

newRoll(a, b) ==
    [pigs |-> <<a, b>>, points |-> scorePair(a, b).points, event |-> scorePair(a, b).event]

\* variant: the updater without `turnPoints: s.turnPoints + newRoll.points`
rollApplyLedgerOnly(a, b) ==
    LET pigOut == startsWithPigOut(scorePair(a, b).event)
    IN  /\ history' = Append(history, newRoll(a, b))
        /\ UNCHANGED turnPoints
        /\ IF ~pigOut THEN UNCHANGED needsToPassPigs ELSE needsToPassPigs' = TRUE

\* variant: the updater zeroing turnPoints on a Pig Out
rollApplyZeroOnPigOut(a, b) ==
    LET pigOut == startsWithPigOut(scorePair(a, b).event)
    IN  /\ history' = Append(history, newRoll(a, b))
        /\ IF ~pigOut
           THEN /\ turnPoints' = turnPoints + scorePair(a, b).points
                /\ UNCHANGED needsToPassPigs
           ELSE /\ needsToPassPigs' = TRUE
                /\ turnPoints' = 0

\* the setState updater of roll
rollApply(a, b) ==
    LET pigOut == startsWithPigOut(scorePair(a, b).event)
    IN  /\ history' = Append(history, newRoll(a, b))
        /\ IF ~pigOut
           THEN /\ turnPoints' = turnPoints + scorePair(a, b).points
                /\ UNCHANGED needsToPassPigs
           ELSE /\ needsToPassPigs' = TRUE
                /\ UNCHANGED turnPoints

rollResolve ==
    /\ pending # <<>>
    /\ pending[1].stage = "rolling"
    /\ \E a \in Sampled(pending[1].state.weights), b \in Sampled(pending[1].state.weights) :
          rollApply(a, b)
    /\ rolling' = FALSE
    /\ pending' = Tail(pending)
    /\ rolled' = rolled + 1
    /\ last' = [op |-> "rollResolve", ran |-> TRUE]
    /\ UNCHANGED <<started, target, players, currentIndex, scoreHistory,
                   currentTurnNumber, weights, finalRound, finalLeaderIndex,
                   finalLeaderScore, finalTurns, anticipating>>

---------------------------------------------------------------------------
(* passThePigs *)

\* variant: pass without its `!state.needsToPassPigs` test
passReturnsEarlyNoFlag == rolling \/ winner # 0

passReturnsEarly == rolling \/ winner # 0 \/ ~needsToPassPigs

\* variant: the pass entry written with action "hold"
passEntryAsHold ==
    [playerId |-> me.id, playerName |-> me.name, turnNumber |-> currentTurnNumber,
     previousScore |-> me.score, newScore |-> me.score, pointsEarned |-> 0,
     action |-> "hold"]

passEntry ==
    [playerId |-> me.id, playerName |-> me.name, turnNumber |-> currentTurnNumber,
     previousScore |-> me.score, newScore |-> me.score, pointsEarned |-> 0,
     action |-> "pass_pigs"]

\* variant: pass without `turns[me.id] = true`
passFinalTurnsUnmarked == finalTurns

passFinalTurns ==
    IF finalRound /\ ~finalTurns.isNull
    THEN [finalTurns EXCEPT !.m = SetKey(finalTurns.m, me.id, TRUE)]
    ELSE finalTurns

passThePigs ==
    IF passReturnsEarly
    THEN /\ last' = [op |-> "pass", ran |-> FALSE]
         /\ UNCHANGED <<game, rolling, anticipating, pending, rolled>>
    ELSE /\ Events < MaxEvents
         /\ history' = <<>>
         /\ turnPoints' = 0
         /\ currentIndex' = nextIndexOf(currentIndex, Len(players))
         /\ finalTurns' = passFinalTurns
         /\ needsToPassPigs' = FALSE
         /\ scoreHistory' = Append(scoreHistory, passEntry)
         /\ currentTurnNumber' = nextTurnNumber(nextIndexOf(currentIndex, Len(players)))
         /\ last' = [op |-> "pass", ran |-> TRUE]
         /\ UNCHANGED <<started, target, players, weights, finalRound,
                        finalLeaderIndex, finalLeaderScore, rolling, anticipating, pending, rolled>>

---------------------------------------------------------------------------
(* hold *)

\* variant: hold refusing a turn without points, as its button does
holdReturnsEarlyAtZero == rolling \/ winner # 0 \/ turnPoints = 0

\* variant: hold without its `winner` test
holdReturnsEarlyNoWinner == rolling

holdReturnsEarly == rolling \/ winner # 0

\* variant: the map compares the 1-based position with currentIndex
bankedPlayersOffByOne ==
    [i \in 1..Len(players) |->
        IF i = currentIndex
        THEN [players[i] EXCEPT !.score = players[i].score + turnPoints]
        ELSE players[i]]

\* Bank points
bankedPlayers ==
    [i \in 1..Len(players) |->
        IF i - 1 = currentIndex
        THEN [players[i] EXCEPT !.score = players[i].score + turnPoints]
        ELSE players[i]]

newScore == bankedPlayers[currentIndex + 1].score

holdEntry ==
    [playerId |-> me.id, playerName |-> me.name, turnNumber |-> currentTurnNumber,
     previousScore |-> me.score, newScore |-> newScore, pointsEarned |-> turnPoints,
     action |-> "hold"]

\* variant: > in place of >=
holdTriggersStrict == ~finalRound /\ newScore > target

\* variant: the trigger test without `!s.finalRound`
holdTriggersAgain == newScore >= target

holdTriggers == ~finalRound /\ newScore >= target

holdInFinalRound == finalRound /\ ~finalTurns.isNull

\* variant: the loop without the following turns[me.id] = true
triggerTurnsAllFalse ==
    [isNull |-> FALSE, m |-> [k \in Ids(players) |-> FALSE]]

\* for (const p of players) turns[p.id] = false; turns[me.id] = true
triggerTurns ==
    [isNull |-> FALSE,
     m |-> SetKey([k \in Ids(players) |-> FALSE], me.id, TRUE)]

\* variant: the final-round hold without `turns[me.id] = true`
holdFinalTurnsUnmarked == finalTurns

holdFinalTurns ==
    [finalTurns EXCEPT !.m = SetKey(finalTurns.m, me.id, TRUE)]

\* variant: the leader score overwritten by the latest hold
holdLeaderScoreOverwrite == newScore

holdLeaderScore == Max(finalLeaderScore, newScore)

hold ==
    IF holdReturnsEarly
    THEN /\ last' = [op |-> "hold", ran |-> FALSE]
         /\ UNCHANGED <<game, rolling, anticipating, pending, rolled>>
    ELSE /\ Events < MaxEvents
         /\ players' = bankedPlayers
         /\ turnPoints' = 0
         /\ history' = <<>>
         /\ currentIndex' = nextIndexOf(currentIndex, Len(players))
         /\ needsToPassPigs' = FALSE
         /\ scoreHistory' = Append(scoreHistory, holdEntry)
         /\ currentTurnNumber' = nextTurnNumber(nextIndexOf(currentIndex, Len(players)))
         /\ IF holdTriggers
            THEN /\ finalRound' = TRUE
                 /\ finalLeaderIndex' = currentIndex
                 /\ finalLeaderScore' = newScore
                 /\ finalTurns' = triggerTurns
            ELSE IF holdInFinalRound
            THEN /\ finalTurns' = holdFinalTurns
                 /\ finalLeaderScore' = holdLeaderScore
                 /\ UNCHANGED <<finalRound, finalLeaderIndex>>
            ELSE UNCHANGED <<finalRound, finalLeaderIndex, finalLeaderScore, finalTurns>>
         /\ last' = [op |-> "hold", ran |-> TRUE]
         /\ UNCHANGED <<started, target, weights, rolling, anticipating, pending, rolled>>

---------------------------------------------------------------------------
(* The engine: the four commands and the reset *)

Next ==
    \/ startGame
    \/ resetGame(FALSE)
    \/ rollRequest
    \/ rollMid
    \/ rollResolve
    \/ passThePigs
    \/ hold

Spec == Init /\ [][Next]_vars

\* The roll bench: a two-player match whose outcome weights have been set
\* (updateWeight) to any table over WeightValues before the first roll, and
\* in which roll() is called up to MaxRolls times.
WeightValues == {-1, 0, 1}

InitRoll ==
    /\ started = FALSE
    /\ target = MinTarget
    /\ players = defaultPlayers(2)
    /\ currentIndex = 0
    /\ turnPoints = 0
    /\ history = <<>>
    /\ scoreHistory = <<>>
    /\ currentTurnNumber = 1
    /\ weights \in [PigPose -> WeightValues]
    /\ finalRound = FALSE
    /\ finalLeaderIndex = NoIndex
    /\ finalLeaderScore = 0
    /\ finalTurns = NullTurns
    /\ needsToPassPigs = FALSE
    /\ rolling = FALSE
    /\ anticipating = FALSE
    /\ pending = <<>>
    /\ rolled = 0
    /\ last = [op |-> "init", ran |-> TRUE]

NextRoll ==
    \/ rolled + Len(pending) < MaxRolls /\ rollRequest
    \/ rollMid
    \/ rollResolve

SpecRoll == InitRoll /\ [][NextRoll]_vars

\* The match played to its end.  The event budget MaxEvents is spent so
\* that the turns still owed can always be ended: a roll is started, and a
\* turn ended outside the final round, only while the budget also covers
\* one turn ending for every player who has not yet had a final turn.
turnsOwed ==
    IF finalRound /\ ~finalTurns.isNull
    THEN Cardinality({k \in DOMAIN finalTurns.m : ~finalTurns.m[k]})
    ELSE Len(players)

roomFor(rolls) == Events + rolls + turnsOwed <= MaxEvents

\* a hold() or passThePigs() call that does not return early
endTurn == roomFor(0) /\ (hold \/ passThePigs) /\ last'.ran

NextLive ==
    \/ startGame
    \/ roomFor(1) /\ rollRequest
    \/ rollMid
    \/ rollResolve
    \/ roomFor(0) /\ passThePigs
    \/ roomFor(0) /\ hold

\* The two timers of a roll() fire (setTimeout); every turn is eventually
\* ended by its player.
SpecLive ==
    /\ Init
    /\ [][NextLive]_vars
    /\ WF_vars(rollMid)
    /\ WF_vars(rollResolve)
    /\ WF_vars(endTurn)

---------------------------------------------------------------------------
(* useLocalState: the stored snapshot read when the component mounts *)

\* JSON values of the two fields the migration inspects
JUndefined == [t |-> "undefined"]
JNull == [t |-> "null"]
\* a string of digits, given by the number it spells
JString(n) == [t |-> "string", v |-> n]
JNumber(n) == [t |-> "number", v |-> n]
JArray(q) == [t |-> "array", v |-> q]

\* !x on these values
falsy(x) == x.t \in {"undefined", "null"}

\* in tenths: 34.9, 30.2, 22.4, 8.8, 3, 0.7
DEFAULT_WEIGHTS ==
    [p \in PigPose |->
        CASE p = "Sider-Left" -> 349
          [] p = "Sider-Right" -> 302
          [] p = "Razorback" -> 224
          [] p = "Trotter" -> 88
          [] p = "Snouter" -> 30
          [] p = "Leaning Jowler" -> 7]

DefaultTarget == 100

defaultState ==
    [started |-> FALSE, target |-> DefaultTarget, players |-> defaultPlayers(2),
     currentIndex |-> 0, turnPoints |-> 0, history |-> <<>>,
     scoreHistory |-> JArray(<<>>), currentTurnNumber |-> JNumber(1),
     weights |-> DEFAULT_WEIGHTS, finalRound |-> FALSE, finalLeaderIndex |-> NoIndex,
     finalLeaderScore |-> 0, finalTurns |-> NullTurns, needsToPassPigs |-> FALSE]

\* variant: the migration defaulting currentTurnNumber to 0
useLocalStateTurnZero(raw, initial) ==
    IF raw.kind = "none" THEN initial
    ELSE IF raw.kind = "garbage" THEN initial
    ELSE [raw.obj EXCEPT
            !.scoreHistory = IF falsy(@) THEN JArray(<<>>) ELSE @,
            !.currentTurnNumber = IF @.t # "number" THEN JNumber(0) ELSE @]

\* raw.kind: "none" when getItem returns null, "garbage" when JSON.parse
\* throws, "object" when it returns the object raw.obj
useLocalState(raw, initial) ==
    IF raw.kind = "none" THEN initial
    ELSE IF raw.kind = "garbage" THEN initial
    ELSE [raw.obj EXCEPT
            !.scoreHistory = IF falsy(@) THEN JArray(<<>>) ELSE @,
            !.currentTurnNumber = IF @.t # "number" THEN JNumber(1) ELSE @]

\* Stored items: nothing, unparseable text, and snapshots of a two-player
\* match as this version or an older one (without scoreHistory and
\* currentTurnNumber) saved them.
StoredEntry ==
    [playerId |-> 1, playerName |-> 1, turnNumber |-> 1, previousScore |-> 0,
     newScore |-> 5, pointsEarned |-> 5, action |-> "hold"]

StoredObjects ==
    {[started |-> st, target |-> tg,
      players |-> [i \in 1..2 |-> [id |-> i, name |-> i, score |-> IF i = 1 THEN sc ELSE 0]],
      currentIndex |-> ci,
      turnPoints |-> tp,
      history |-> IF tp = 0 THEN <<>> ELSE <<newRoll("Razorback", "Sider-Left")>>,
      scoreHistory |-> sh, currentTurnNumber |-> tn,
      weights |-> SetupWeights,
      finalRound |-> fr,
      finalLeaderIndex |-> IF fr THEN 0 ELSE NoIndex,
      finalLeaderScore |-> IF fr THEN MinTarget ELSE 0,
      finalTurns |-> IF fr THEN [isNull |-> FALSE, m |-> [k \in {1, 2} |-> k = 1]]
                           ELSE NullTurns,
      needsToPassPigs |-> FALSE] :
        st \in BOOLEAN, tg \in {MinTarget, DefaultTarget}, sc \in {0, 5},
        ci \in {0, 1}, tp \in {0, 5}, fr \in BOOLEAN,
        sh \in {JUndefined, JNull, JArray(<<>>), JArray(<<StoredEntry>>)},
        tn \in {JUndefined, JString(2), JNumber(1), JNumber(2)}}

StoredItems ==
    {[kind |-> "none"], [kind |-> "garbage"]} \cup
    {[kind |-> "object", obj |-> o] : o \in StoredObjects}

\* the page is loaded: the component mounts on the stored item, with no
\* roll in flight
load(raw) ==
    LET s == useLocalState(raw, defaultState)
    IN  /\ started' = s.started
        /\ target' = s.target
        /\ players' = s.players
        /\ currentIndex' = s.currentIndex
        /\ turnPoints' = s.turnPoints
        /\ history' = s.history
        /\ scoreHistory' = s.scoreHistory.v
        /\ currentTurnNumber' = s.currentTurnNumber.v
        /\ weights' = s.weights
        /\ finalRound' = s.finalRound
        /\ finalLeaderIndex' = s.finalLeaderIndex
        /\ finalLeaderScore' = s.finalLeaderScore
        /\ finalTurns' = s.finalTurns
        /\ needsToPassPigs' = s.needsToPassPigs
        /\ rolling' = FALSE
        /\ anticipating' = FALSE
        /\ pending' = <<>>
        /\ rolled' = 0
        /\ last' = [op |-> "load", ran |-> TRUE, raw |-> raw]

NextLoad == \E raw \in StoredItems : load(raw)

SpecLoad == Init /\ [][NextLoad]_vars

---------------------------------------------------------------------------
(* addPlayer and removePlayer *)

\* the ids the state still refers to: a new crypto.randomUUID() differs
\* from all of them
KnownIds ==
    Ids(players) \cup DOMAIN finalTurns.m
        \cup {scoreHistory[k].playerId : k \in 1..Len(scoreHistory)}

addPlayer ==
    /\ Events < MaxEvents
    /\ rolled' = rolled + 1
    /\ players' = Append(players,
                     [id |-> FreshId(KnownIds), name |-> Len(players) + 1, score |-> 0])
    /\ last' = [op |-> "addPlayer", ran |-> TRUE]
    /\ UNCHANGED <<started, target, currentIndex, turnPoints, history, scoreHistory,
                   currentTurnNumber, weights, finalRound, finalLeaderIndex,
                   finalLeaderScore, finalTurns, needsToPassPigs,
                   rolling, anticipating, pending>>

\* s.players.filter((p) => p.id !== id)
filterOut(ps, id) == SelectSeq(ps, LAMBDA p : p.id # id)

removePlayer(id) ==
    /\ Events < MaxEvents
    /\ rolled' = rolled + 1
    /\ players' = filterOut(players, id)
    /\ currentIndex' = 0
    /\ last' = [op |-> "removePlayer", ran |-> TRUE]
    /\ UNCHANGED <<started, target, turnPoints, history, scoreHistory,
                   currentTurnNumber, weights, finalRound, finalLeaderIndex,
                   finalLeaderScore, finalTurns, needsToPassPigs,
                   rolling, anticipating, pending>>

\* The engine with the Players card, which is shown before and during a
\* match: a player is added while the list has room, and a player's remove
\* button exists only while the list has more than two players.  A roster
\* edit is charged to the event budget like a roll or a turn ending.
NextRoster ==
    \/ startGame
    \/ rollRequest
    \/ rollMid
    \/ rollResolve
    \/ passThePigs
    \/ hold
    \/ Len(players) < MaxPlayers /\ addPlayer
    \/ \E i \in 1..Len(players) : Len(players) > 2 /\ removePlayer(players[i].id)

SpecRoster == Init /\ [][NextRoster]_vars

\* the engine with both resets: Reset Scores (soft) and New Match (hard)
NextReset ==
    \/ startGame
    \/ \E hard \in BOOLEAN : resetGame(hard)
    \/ rollRequest
    \/ rollMid
    \/ rollResolve
    \/ passThePigs
    \/ hold

SpecReset == Init /\ [][NextReset]_vars

---------------------------------------------------------------------------
(* Properties *)

Complete == winner # 0

isReset(op) == op \in {"resetSoft", "resetHard"}

holdRan(l) == l.op = "hold" /\ l.ran
passRan(l) == l.op = "pass" /\ l.ran

flagged == {k \in DOMAIN finalTurns.m : finalTurns.m[k]}

\* position in the score history of the hold that activated the final round:
\* the first hold that ended at or above the target
isTriggerEntry(e) == e.action = "hold" /\ e.newScore >= target

TriggerPos ==
    CHOOSE k \in 1..Len(scoreHistory) :
        /\ isTriggerEntry(scoreHistory[k])
        /\ \A j \in 1..(k - 1) : ~isTriggerEntry(scoreHistory[j])

\* turn endings since the final round was activated
endsSinceTrigger == Len(scoreHistory) - TriggerPos

\* C1: once a hold has activated the final round, the e-th turn ending after
\* it (e = 1 .. n-1) is made by the player e places after the triggering
\* player in round-robin order, the players flagged are exactly the
\* triggering player and those e players, the player after them is current,
\* no further turn ending follows the (n-1)th, and the match is Complete
\* exactly when e = n-1.
C1_FinalRoundOneTurnEach ==
    finalRound =>
        LET n == Len(players)
            t == finalLeaderIndex
            e == endsSinceTrigger
        IN  /\ \E k \in 1..Len(scoreHistory) : isTriggerEntry(scoreHistory[k])
            /\ t \in 0..(n - 1)
            /\ e \in 0..(n - 1)
            /\ scoreHistory[TriggerPos].playerId = players[t + 1].id
            /\ \A j \in 1..e :
                  scoreHistory[TriggerPos + j].playerId = players[((t + j) % n) + 1].id
            /\ currentIndex = (t + 1 + e) % n
            /\ ~finalTurns.isNull
            /\ DOMAIN finalTurns.m = Ids(players)
            /\ \A i \in 0..(n - 1) :
                  finalTurns.m[players[i + 1].id] <=> ((i - t + n) % n <= e)
            /\ Complete <=> (e = n - 1)

C1_Witness ==
    /\ Complete
    /\ Len(players) = 3
    /\ holdRan(last)
    /\ endsSinceTrigger = 2

\* C2: a winner exists exactly when the final round is active and every id
\* in finalTurns maps to true.
C2_WinnerIffFinalDone ==
    Complete <=> (finalRound /\ \A k \in DOMAIN finalTurns.m : finalTurns.m[k])

C2_Witness == Complete /\ passRan(last)

\* C3: at Complete the winner has a score no other player exceeds, and every
\* player before the winner in the list has a strictly lower score.
C3_WinnerIsFirstHighest ==
    Complete =>
        /\ winner \in 1..Len(players)
        /\ \A i \in 1..Len(players) : players[i].score <= players[winner].score
        /\ \A i \in 1..(winner - 1) : players[i].score < players[winner].score

C3_Witness ==
    /\ Complete
    /\ \E i \in 1..Len(players) :
          i # winner /\ players[i].score = players[winner].score /\ players[i].score > 0

\* C4 (as claimed): while the turn is blocked after a Pig Out, no step
\* raises the current player's banked score.
C4_NoBankAfterPigOut ==
    [][needsToPassPigs =>
          players'[currentIndex + 1].score <= players[currentIndex + 1].score]_vars

\* C5 (as claimed): a roll() requested while the turn is blocked pending
\* pass, and resolving while it is still blocked, leaves the turn ledger, the
\* turn points, the current player and the blocked flag as they are.
C5_RollWhileBlockedIsNoOp ==
    [][(/\ needsToPassPigs
        /\ pending # <<>>
        /\ pending[1].stage = "rolling"
        /\ pending[1].state.needsToPassPigs
        /\ last'.op = "rollResolve")
       => UNCHANGED <<history, turnPoints, currentIndex, needsToPassPigs>>]_vars

\* C6: roll(), hold() and pass() called when the match is Complete change
\* nothing: the whole game state, the rolling flags and the suspended rolls
\* are as before.
C6_NoOpsWhenComplete ==
    [][(Complete /\ last'.op \in {"roll", "hold", "pass"})
       => (~last'.ran /\ UNCHANGED <<game, rolling, anticipating, pending>>)]_vars

C6_Witness == Complete /\ last.op = "hold" /\ ~last.ran

\* C7: a hold that runs with the final round inactive and score + turnPoints
\* >= target activates the final round, flags the holder alone, records the
\* holder's index and new score as leader, and advances the current player.
C7_TriggeringHold ==
    [][(/\ holdRan(last')
        /\ ~finalRound
        /\ players[currentIndex + 1].score + turnPoints >= target)
       => (/\ finalRound'
           /\ ~finalTurns'.isNull
           /\ finalTurns'.m =
                 [k \in Ids(players) |-> k = players[currentIndex + 1].id]
           /\ finalLeaderIndex' = currentIndex
           /\ finalLeaderScore' = players[currentIndex + 1].score + turnPoints
           /\ players'[currentIndex + 1].score = players[currentIndex + 1].score + turnPoints
           /\ currentIndex' = (currentIndex + 1) % Len(players))]_vars

\* the hold that just ran activated the final round with a score equal to
\* the target, reached over two rolls
C7_Witness ==
    /\ holdRan(last)
    /\ finalRound
    /\ Cardinality(flagged) = 1
    /\ finalLeaderScore = target
    /\ scoreHistory[Len(scoreHistory)].pointsEarned = target

\* C8: a hold that runs while the final round is active flags the holder,
\* makes finalLeaderScore the larger of its old value and the holder's new
\* score, leaves every other flag as it is and advances the current player.
C8_HoldInFinalRound ==
    [][(holdRan(last') /\ finalRound)
       => (/\ finalRound'
           /\ finalTurns'.m =
                 [k \in DOMAIN finalTurns.m \cup {players[currentIndex + 1].id} |->
                     IF k = players[currentIndex + 1].id THEN TRUE ELSE finalTurns.m[k]]
           /\ finalLeaderScore' =
                 Max(finalLeaderScore, players[currentIndex + 1].score + turnPoints)
           /\ (players[currentIndex + 1].score + turnPoints < finalLeaderScore
                  => finalLeaderScore' = finalLeaderScore)
           /\ currentIndex' = (currentIndex + 1) % Len(players))]_vars

\* a final-round hold that banked points and still ended below the leader
C8_Witness ==
    /\ holdRan(last)
    /\ finalRound
    /\ Cardinality(flagged) >= 2
    /\ scoreHistory[Len(scoreHistory)].pointsEarned > 0
    /\ scoreHistory[Len(scoreHistory)].newScore < finalLeaderScore

\* C9: short of a reset, an active final round stays active, its
\* finalLeaderIndex stays the same and a finalTurns flag that is true stays
\* true.
C9_FinalRoundTriggeredOnce ==
    [][(finalRound /\ ~isReset(last'.op))
       => (/\ finalRound'
           /\ finalLeaderIndex' = finalLeaderIndex
           /\ ~finalTurns'.isNull
           /\ \A k \in DOMAIN finalTurns.m :
                 finalTurns.m[k] => (k \in DOMAIN finalTurns'.m /\ finalTurns'.m[k]))]_vars

\* a second player has held at or above the target during the final round
C9_Witness ==
    /\ finalRound
    /\ holdRan(last)
    /\ Len(scoreHistory) > TriggerPos
    /\ isTriggerEntry(scoreHistory[Len(scoreHistory)])
    /\ ~Complete

\* C10: short of a reset no banked score decreases, the player list keeps
\* its ids, and a score changes only in a hold that runs, and then only the
\* score of the player current at that step.
C10_ScoresChangeOnlyByHold ==
    [][~isReset(last'.op)
       => (/\ Len(players') = Len(players)
           /\ \A i \in 1..Len(players) :
                 /\ players'[i].id = players[i].id
                 /\ players'[i].score >= players[i].score
                 /\ (players'[i].score # players[i].score
                        => (holdRan(last') /\ i = currentIndex + 1)))]_vars

\* the second player of the list has banked points
C10_Witness ==
    /\ holdRan(last)
    /\ players[2].score > 0
    /\ scoreHistory[Len(scoreHistory)].playerId = players[2].id

---------------------------------------------------------------------------
(* Turn ledger, rotation and the Pig Out step *)

rollResolved(l) == l.op = "rollResolve"

\* the sum of the points of the first i rolls of a ledger
RECURSIVE LedgerSum(_, _)
LedgerSum(h, i) == IF i = 0 THEN 0 ELSE LedgerSum(h, i - 1) + h[i].points

\* C11: in every reachable state turnPoints is the sum of the points of the
\* rolls in the turn ledger, and every hold or pass that runs leaves
\* turnPoints 0 and the ledger empty.
C11_TurnPointsIsLedgerSum ==
    /\ [](turnPoints = LedgerSum(history, Len(history)))
    /\ [][(holdRan(last') \/ passRan(last'))
          => (turnPoints' = 0 /\ history' = <<>>)]_vars

\* a second turn whose ledger holds two scoring rolls, the first turn having
\* been ended by a hold that banked points
C11_Witness ==
    /\ Len(scoreHistory) = 1
    /\ scoreHistory[1].pointsEarned > 0
    /\ Len(history) = 2
    /\ history[1].points > 0
    /\ history[2].points > 0
    /\ turnPoints = history[1].points + history[2].points

\* C12: in every reachable state 0 <= currentIndex < number of players;
\* every hold or pass that runs sets currentIndex to (currentIndex + 1) mod
\* the number of players, and no step of a roll() call changes it.
C12_RoundRobin ==
    /\ [](currentIndex \in 0..(Len(players) - 1))
    /\ [][/\ (holdRan(last') \/ passRan(last'))
             => currentIndex' = (currentIndex + 1) % Len(players)
          /\ last'.op \in {"roll", "rollMid", "rollResolve"}
             => currentIndex' = currentIndex]_vars

\* the rotation has wrapped from the last of three players to the first, the
\* last turn having been ended by a pass
C12_Witness ==
    /\ Len(players) = 3
    /\ Len(scoreHistory) = 3
    /\ passRan(last)
    /\ scoreHistory[3].playerId = players[3].id
    /\ currentIndex = 0

\* the step resolves a roll() call into a Pig Out
pigOutStep ==
    /\ rollResolved(last')
    /\ Len(history') = Len(history) + 1
    /\ startsWithPigOut(history'[Len(history')].event)

\* the step ends a turn: an entry is added to the score history
turnEnds == Len(scoreHistory') = Len(scoreHistory) + 1

\* C13 (as claimed): a roll step that produces a Pig Out appends the roll to
\* the turn ledger and sets needsToPassPigs, leaves turnPoints and the
\* current player as they are, and a turn that is blocked after a Pig Out is
\* ended by passThePigs() and by no other command.
C13_PigOutBlocksUntilPass ==
    [][/\ pigOutStep
          => (/\ history' = Append(history, history'[Len(history')])
              /\ history'[Len(history')].points = 0
              /\ needsToPassPigs'
              /\ turnPoints' = turnPoints
              /\ currentIndex' = currentIndex)
       /\ (needsToPassPigs /\ turnEnds) => passRan(last')]_vars

C15_PassEndsTurnUnbanked ==
    [][passRan(last')
       => LET p == players[currentIndex + 1]
          IN  /\ needsToPassPigs
              /\ players' = players
              /\ Len(scoreHistory') = Len(scoreHistory) + 1
              /\ SubSeq(scoreHistory', 1, Len(scoreHistory)) = scoreHistory
              /\ LET e == scoreHistory'[Len(scoreHistory')]
                 IN  /\ e.playerId = p.id
                     /\ e.pointsEarned = 0
                     /\ e.action = "pass_pigs"
                     /\ e.previousScore = p.score
                     /\ e.newScore = p.score
              /\ history' = <<>>
              /\ turnPoints' = 0
              /\ IF finalRound
                 THEN /\ ~finalTurns'.isNull
                      /\ finalTurns'.m =
                            [k \in DOMAIN finalTurns.m \cup {p.id} |->
                                IF k = p.id THEN TRUE ELSE finalTurns.m[k]]
                 ELSE finalTurns' = finalTurns
              /\ currentIndex' = (currentIndex + 1) % Len(players)
              /\ ~needsToPassPigs']_vars

\* a pass during the final round of a three-player match: the passer is
\* flagged beside the leader and the match is not yet Complete
C15_Witness ==
    /\ passRan(last)
    /\ finalRound
    /\ Len(players) = 3
    /\ Cardinality(flagged) = 2
    /\ LET e == scoreHistory[Len(scoreHistory)]
       IN  /\ e.action = "pass_pigs"
           /\ e.playerId \in flagged
           /\ e.playerId # players[finalLeaderIndex + 1].id

---------------------------------------------------------------------------
(* Reset *)

\* C16: a reset, soft or hard, from any reachable state leaves an empty
\* score history, an empty turn ledger, turnPoints 0, turn counter 1,
\* currentIndex 0, the final round inactive (no leader, no finalTurns),
\* needsToPassPigs false, started false and every score 0, and keeps the
\* target and the outcome weights; a soft reset keeps the player list with
\* the same ids and names in the same order.
C16_ResetClearsMatch ==
    [][isReset(last'.op)
       => (/\ scoreHistory' = <<>>
           /\ history' = <<>>
           /\ turnPoints' = 0
           /\ currentTurnNumber' = 1
           /\ currentIndex' = 0
           /\ ~finalRound'
           /\ finalLeaderIndex' = NoIndex
           /\ finalLeaderScore' = 0
           /\ finalTurns'.isNull
           /\ ~needsToPassPigs'
           /\ ~started'
           /\ \A i \in 1..Len(players') : players'[i].score = 0
           /\ target' = target
           /\ weights' = weights
           /\ last'.op = "resetSoft"
              => (/\ Len(players') = Len(players)
                  /\ \A i \in 1..Len(players) :
                        /\ players'[i].id = players[i].id
                        /\ players'[i].name = players[i].name))]_vars

\* a soft reset made while a roll is in flight, in a match whose two
\* players were regenerated by an earlier hard reset
C16_Witness ==
    /\ last.op = "resetSoft"
    /\ Ids(players) \cap {1, 2, 3} = {}
    /\ rolling
    /\ pending # <<>>

---------------------------------------------------------------------------
(* Scoring and sampling, read off the rolls of the turn ledger *)

PoseIndex(p) == CHOOSE i \in 1..Len(PoseOrder) : PoseOrder[i] = p

\* the rule table, rows and columns in the order Sider-Left, Sider-Right,
\* Razorback, Trotter, Snouter, Leaning Jowler
RuleTable ==
    << << 1,  0,  5,  5, 10, 15>>,
       << 0,  1,  5,  5, 10, 15>>,
       << 5,  5, 20, 10, 15, 20>>,
       << 5,  5, 10, 20, 15, 20>>,
       <<10, 10, 15, 15, 40, 25>>,
       <<15, 15, 20, 20, 25, 60>> >>

RulePoints(a, b) == RuleTable[PoseIndex(a)][PoseIndex(b)]

\* C17: every roll in the ledger carries the points the rule table gives
\* its ordered pair of poses: opposite siders 0, same-side siders 1, one
\* sider the base value of the other pose, two identical non-siders twice
\* the sum of their base values (20, 20, 40, 60), two different non-siders
\* the sum of their base values.
C17_ScorePairRuleTable ==
    \A i \in 1..Len(history) :
        /\ history[i].pigs \in PigPose \X PigPose
        /\ history[i].points = scorePair(history[i].pigs[1], history[i].pigs[2]).points
        /\ history[i].points = RulePoints(history[i].pigs[1], history[i].pigs[2])

\* a Double Leaning Jowler (60) followed by a Double Snouter (40)
C17_Witness ==
    /\ Len(history) = 2
    /\ history[1].pigs = <<"Leaning Jowler", "Leaning Jowler">>
    /\ history[1].points = 60
    /\ history[2].pigs = <<"Snouter", "Snouter">>
    /\ history[2].points = 40
    /\ turnPoints = 100

\* C18: the points of every roll in the ledger are the points scorePair
\* gives the same two poses in the other order.
C18_ScorePairSymmetric ==
    \A i \in 1..Len(history) :
        history[i].points = scorePair(history[i].pigs[2], history[i].pigs[1]).points

\* the same two different poses, one a sider, rolled in both orders
C18_Witness ==
    /\ Len(history) = 2
    /\ history[1].pigs = <<"Sider-Right", "Snouter">>
    /\ history[2].pigs = <<"Snouter", "Sider-Right">>
    /\ history[1].points = history[2].points
    /\ history[1].points = 10

Positive(w) == {p \in PigPose : w[p] > 0}

Rolled == {history[i].pigs[1] : i \in 1..Len(history)} \cup
          {history[i].pigs[2] : i \in 1..Len(history)}

\* C19 (as claimed): while some pose has a positive weight, no pose rolled
\* has a zero or negative weight, whatever the draw; with exactly one pose
\* of positive weight every pose rolled is that pose.
C19_NeverSamplesZeroWeight ==
    Positive(weights) # {} => Rolled \subseteq Positive(weights)

\* C20 (as claimed): with every weight zero or negative, every pose rolled
\* is the last pose of the fixed order.
C20_AllZeroReturnsLast ==
    Positive(weights) = {} => Rolled \subseteq {PoseOrder[Len(PoseOrder)]}

---------------------------------------------------------------------------
(* Commands outside their valid state *)

turnAction(l) == l.op \in {"roll", "hold", "pass"}

\* C21 (as claimed): while a roll() call is suspended at one of its awaits,
\* a hold(), a passThePigs() or a further roll() returns early and leaves
\* the game state and the suspended call as they are.
C21_NoTurnActionWhilePending ==
    [][(pending # <<>> /\ turnAction(last'))
       => (~last'.ran /\ UNCHANGED <<game, pending>>)]_vars

\* C22 (as claimed): roll() and hold() called before startGame() (started
\* is false) return early and leave the game state, the rolling flags and
\* the suspended rolls as they are.
C22_NoRollOrHoldBeforeStart ==
    [][(~started /\ last'.op \in {"roll", "hold"})
       => (~last'.ran /\ UNCHANGED <<game, rolling, anticipating, pending>>)]_vars

---------------------------------------------------------------------------
(* start, score history, turn counter *)

\* C23: startGame() sets started and changes nothing else: target, players
\* and scores, current player, turn points, ledger, score history, turn
\* counter, weights, final-round state, blocked flag, rolling flags and
\* suspended rolls are as before; on a match that is already started the
\* whole state is as before.
C23_StartSetsOnlyStarted ==
    [][last'.op = "startGame"
       => (/\ started'
           /\ UNCHANGED <<target, players, currentIndex, turnPoints, history,
                          scoreHistory, currentTurnNumber, weights, finalRound,
                          finalLeaderIndex, finalLeaderScore, finalTurns,
                          needsToPassPigs, rolling, anticipating, pending>>
           /\ started => UNCHANGED game)]_vars

\* startGame() called in the middle of a turn of the final round
C23_Witness ==
    /\ last.op = "startGame"
    /\ started
    /\ finalRound
    /\ turnPoints > 0
    /\ history # <<>>
    /\ scoreHistory # <<>>

\* C24: the score history is append-only: a hold that runs appends exactly
\* one entry with action hold, a pass that runs exactly one with action
\* pass_pigs, both leaving the earlier entries unchanged and in place; every
\* other step but a reset (the steps of roll() and startGame() among them)
\* leaves the score history as it is; a reset empties it.
C24_ScoreHistoryAppendOnly ==
    [][/\ holdRan(last')
          => (/\ Len(scoreHistory') = Len(scoreHistory) + 1
              /\ SubSeq(scoreHistory', 1, Len(scoreHistory)) = scoreHistory
              /\ scoreHistory'[Len(scoreHistory')].action = "hold")
       /\ passRan(last')
          => (/\ Len(scoreHistory') = Len(scoreHistory) + 1
              /\ SubSeq(scoreHistory', 1, Len(scoreHistory)) = scoreHistory
              /\ scoreHistory'[Len(scoreHistory')].action = "pass_pigs")
       /\ (~holdRan(last') /\ ~passRan(last') /\ ~isReset(last'.op))
          => scoreHistory' = scoreHistory
       /\ isReset(last'.op) => scoreHistory' = <<>>]_vars

\* a history of a hold, a pass and a hold, the last one just appended
C24_Witness ==
    /\ holdRan(last)
    /\ Len(scoreHistory) = 3
    /\ scoreHistory[1].action = "hold"
    /\ scoreHistory[2].action = "pass_pigs"
    /\ scoreHistory[3].action = "hold"

\* C25: the turn counter starts at 1; a hold (triggering, final-round or
\* normal) or a pass that runs increases it by exactly 1 when the new
\* currentIndex is 0 and leaves it as it is otherwise; the steps of roll()
\* and startGame() never change it.
C25_TurnCounter ==
    /\ currentTurnNumber = 1
    /\ [][/\ (holdRan(last') \/ passRan(last'))
             => currentTurnNumber' =
                   IF currentIndex' = 0 THEN currentTurnNumber + 1 ELSE currentTurnNumber
          /\ last'.op \in {"roll", "rollMid", "rollResolve", "startGame"}
             => currentTurnNumber' = currentTurnNumber]_vars

\* a final-round hold has wrapped the rotation to the first player: round 2
\* begins; the hold before it activated the final round without a wrap
C25_Witness ==
    /\ holdRan(last)
    /\ finalRound
    /\ Len(scoreHistory) = 2
    /\ isTriggerEntry(scoreHistory[1])
    /\ scoreHistory[1].turnNumber = 1
    /\ scoreHistory[2].turnNumber = 1
    /\ currentIndex = 0
    /\ currentTurnNumber = 2

\* C26: passThePigs() called while the turn is not blocked after a Pig Out
\* returns early: the game state (current player, turn points, ledger,
\* score history included), the rolling flags and the suspended rolls are
\* as before.
C26_PassUnblockedIsNoOp ==
    [][(~needsToPassPigs /\ last'.op = "pass")
       => (~last'.ran /\ UNCHANGED <<game, rolling, anticipating, pending>>)]_vars

\* a pass refused in the middle of a turn that has points, with no roll in
\* flight and no winner: the missing Pig Out alone made it return
C26_Witness ==
    /\ last.op = "pass"
    /\ ~last.ran
    /\ ~needsToPassPigs
    /\ ~rolling
    /\ ~Complete
    /\ turnPoints > 0
    /\ history # <<>>

---------------------------------------------------------------------------
(* Loading a stored snapshot *)

\* the fields of a snapshot the migration does not inspect
plainFields(o) ==
    <<o.started, o.target, o.players, o.currentIndex, o.turnPoints, o.history,
      o.weights, o.finalRound, o.finalLeaderIndex, o.finalLeaderScore,
      o.finalTurns, o.needsToPassPigs>>

---------------------------------------------------------------------------
(* The outcome label *)

\* two different poses, neither a sider
mixedPair(a, b) == ~isSider(a) /\ ~isSider(b) /\ a # b

\* C28 (as claimed): every roll in the ledger carries the points and the
\* label scorePair gives the same two poses in the other order.
C28_ScorePairFullySymmetric ==
    \A i \in 1..Len(history) :
        LET other == scorePair(history[i].pigs[2], history[i].pigs[1])
        IN  /\ history[i].points = other.points
            /\ history[i].event = other.event

\* C28 (amended): for every roll (a, b) in the ledger the points of
\* scorePair(b, a) are the same, and so is its label unless a and b are two
\* different non-siders; then the label names the two poses in the order
\* rolled, "a + b (+sum)", and the label of (b, a) is "b + a (+sum)".
C28_LabelSymmetricUnlessMixed ==
    \A i \in 1..Len(history) :
        LET a == history[i].pigs[1]
            b == history[i].pigs[2]
            other == scorePair(b, a)
        IN  /\ history[i].points = other.points
            /\ history[i].event = scorePair(a, b).event
            /\ ~mixedPair(a, b) => history[i].event = other.event
            /\ mixedPair(a, b)
               => (/\ history[i].event = <<a, " + ", b, " (+", ToString(history[i].points), ")">>
                   /\ other.event = <<b, " + ", a, " (+", ToString(history[i].points), ")">>
                   /\ history[i].event # other.event)

\* Razorback and Trotter rolled in both orders: same points, two labels;
\* with a sider in the pair the label does not depend on the order
C28_Witness ==
    /\ Len(history) = 2
    /\ history[1].pigs = <<"Razorback", "Trotter">>
    /\ history[2].pigs = <<"Trotter", "Razorback">>
    /\ history[1].points = history[2].points
    /\ history[1].event # history[2].event
    /\ scorePair("Snouter", "Sider-Left").event = scorePair("Sider-Left", "Snouter").event

---------------------------------------------------------------------------
(* hold with no turn points *)

\* C29: hold() called with turnPoints = 0 on a turn that is not blocked, in
\* a match that is not Complete and with no roll in its rolling phase, runs:
\* every score stays as it is, one score-history entry with pointsEarned 0,
\* action hold and previousScore = newScore is appended, the next player
\* becomes current, and in the final round the holder's finalTurns flag is
\* set to true.
C29_HoldWithoutPoints ==
    [][(/\ last'.op = "hold"
        /\ turnPoints = 0
        /\ ~needsToPassPigs
        /\ ~Complete
        /\ ~rolling)
       => LET p == players[currentIndex + 1]
          IN  /\ last'.ran
              /\ players' = players
              /\ Len(scoreHistory') = Len(scoreHistory) + 1
              /\ SubSeq(scoreHistory', 1, Len(scoreHistory)) = scoreHistory
              /\ LET e == scoreHistory'[Len(scoreHistory')]
                 IN  /\ e.playerId = p.id
                     /\ e.pointsEarned = 0
                     /\ e.action = "hold"
                     /\ e.previousScore = p.score
                     /\ e.newScore = p.score
              /\ currentIndex' = (currentIndex + 1) % Len(players)
              /\ finalRound
                 => (/\ finalRound'
                     /\ ~finalTurns'.isNull
                     /\ finalTurns'.m[p.id])]_vars

\* a hold without points in the final round of a three-player match: the
\* holder is flagged beside the leader, nothing was banked
C29_Witness ==
    /\ holdRan(last)
    /\ finalRound
    /\ Len(players) = 3
    /\ Cardinality(flagged) = 2
    /\ LET e == scoreHistory[Len(scoreHistory)]
       IN  /\ e.action = "hold"
           /\ e.pointsEarned = 0
           /\ e.newScore = e.previousScore
           /\ e.playerId \in flagged
           /\ e.playerId # players[finalLeaderIndex + 1].id

---------------------------------------------------------------------------
(* Termination of the final round *)

---------------------------------------------------------------------------
(* Scores, the target and the leader score *)

\* C31: with the target and the player list as they were at the start of
\* the match, in every state in which the final round is not active every
\* player's banked score is strictly below the target; and a step from
\* such a state that takes a score to the target or above is a hold() that
\* runs and activates the final round.
C31_BelowTargetOutsideFinalRound ==
    /\ [](~finalRound => \A i \in 1..Len(players) : players[i].score < target)
    /\ [][(/\ ~finalRound
           /\ \E i \in 1..Len(players) : players'[i].score >= target)
          => (holdRan(last') /\ finalRound')]_vars

\* two holds have banked points for both players of a match, neither
\* reaching the target: the final round is not active
C31_Witness ==
    /\ ~finalRound
    /\ holdRan(last)
    /\ Len(players) = 2
    /\ players[1].score > 0
    /\ players[2].score > 0

\* the highest banked score of the list
MaxScore(ps) ==
    CHOOSE m \in {ps[i].score : i \in 1..Len(ps)} :
        \A i \in 1..Len(ps) : ps[i].score <= m

\* C32: with the target and the player list as they were at the start of
\* the match, whenever the final round is active finalLeaderScore is the
\* highest banked score of all players and is at least the target; so at
\* Complete the winner's score is finalLeaderScore.
C32_LeaderScoreIsMaxScore ==
    finalRound =>
        /\ finalLeaderScore = MaxScore(players)
        /\ finalLeaderScore >= target
        /\ Complete => players[winner].score = finalLeaderScore

\* a match completed by a final-round hold that banked points without
\* reaching the leader: the leader score is still the triggering score
C32_Witness ==
    /\ Complete
    /\ holdRan(last)
    /\ LET e == scoreHistory[Len(scoreHistory)]
       IN  /\ e.pointsEarned > 0
           /\ e.newScore < finalLeaderScore
    /\ players[finalLeaderIndex + 1].score = finalLeaderScore
    /\ winner = finalLeaderIndex + 1

---------------------------------------------------------------------------
(* Score history and scoreboard *)

\* the positions of the score-history entries of player id
entriesOf(id) == {k \in 1..Len(scoreHistory) : scoreHistory[k].playerId = id}

RECURSIVE EarnedUpTo(_, _)
\* pointsEarned summed over the entries of player id among the first k
EarnedUpTo(id, k) ==
    IF k = 0 THEN 0
    ELSE EarnedUpTo(id, k - 1)
         + (IF scoreHistory[k].playerId = id THEN scoreHistory[k].pointsEarned ELSE 0)

\* newScore of the latest entry of player id, 0 without an entry
latestScore(id) ==
    IF entriesOf(id) = {} THEN 0
    ELSE scoreHistory[CHOOSE k \in entriesOf(id) : \A j \in entriesOf(id) : j <= k].newScore

---------------------------------------------------------------------------
(* Pig Out and the points of a roll *)

oppositeSiders(a, b) ==
    (a = "Sider-Left" /\ b = "Sider-Right") \/ (a = "Sider-Right" /\ b = "Sider-Left")

\* C34: scorePair gives 0 points exactly for two opposite siders, which is
\* exactly when its label starts with "Pig Out" - for every pair of poses
\* and for every roll in the ledger; a roll step that is not a Pig Out
\* increases turnPoints by the roll's points, at least 1, and a Pig Out
\* leaves turnPoints as it is.
C34_ZeroPointsIffPigOut ==
    /\ [](/\ \A a \in PigPose, b \in PigPose :
                /\ scorePair(a, b).points = 0 <=> oppositeSiders(a, b)
                /\ startsWithPigOut(scorePair(a, b).event) <=> oppositeSiders(a, b)
          /\ \A i \in 1..Len(history) :
                /\ history[i].points = 0
                      <=> oppositeSiders(history[i].pigs[1], history[i].pigs[2])
                /\ startsWithPigOut(history[i].event) <=> history[i].points = 0)
    /\ [][rollResolved(last')
          => LET r == history'[Len(history')]
             IN  /\ turnPoints' = turnPoints + r.points
                 /\ ~startsWithPigOut(r.event) => turnPoints' >= turnPoints + 1
                 /\ startsWithPigOut(r.event) => turnPoints' = turnPoints]_vars

\* a turn of two rolls: two siders on the same side, the least a roll can
\* earn, and then a Pig Out
C34_Witness ==
    /\ rollResolved(last)
    /\ Len(history) = 2
    /\ history[1].points = 1
    /\ history[2].points = 0
    /\ startsWithPigOut(history[2].event)
    /\ turnPoints = 1
    /\ needsToPassPigs

---------------------------------------------------------------------------
(* Grouping the score history by turn number *)

\* C35: between resets and with the player list unchanged, the turnNumber
\* values of the score history are non-decreasing in append order and no
\* player id has two entries with the same turnNumber; the k-th entry
\* carries the number of the round of the table it was made in, so the
\* entries of one turnNumber are the turn endings of one round.
C35_TurnNumberGroupsRounds ==
    LET n == Len(players)
    IN  /\ \A j \in 1..Len(scoreHistory), k \in 1..Len(scoreHistory) :
              /\ j < k => scoreHistory[j].turnNumber <= scoreHistory[k].turnNumber
              /\ (j # k /\ scoreHistory[j].playerId = scoreHistory[k].playerId)
                 => scoreHistory[j].turnNumber # scoreHistory[k].turnNumber
        /\ \A k \in 1..Len(scoreHistory) :
              scoreHistory[k].turnNumber = ((k - 1) \div n) + 1

\* two full rounds of a two-player match: two entries in group 1, two in
\* group 2
C35_Witness ==
    /\ Len(players) = 2
    /\ Len(scoreHistory) = 4
    /\ scoreHistory[2].turnNumber = 1
    /\ scoreHistory[3].turnNumber = 2
    /\ scoreHistory[1].playerId = scoreHistory[3].playerId
    /\ scoreHistory[2].playerId = scoreHistory[4].playerId

---------------------------------------------------------------------------
(* A reset while a roll is pending *)

\* C36: a roll requested before a reset has no effect on the state after
\* the reset: when resetGame() has run while a roll was suspended at its
\* second await and that roll resolves next, the Turn Ledger is still
\* empty, turnPoints is still 0 and the blocked flag is still false.
C36_ResetDiscardsPendingRoll ==
    [][(/\ isReset(last.op)
        /\ pending # <<>>
        /\ rollResolved(last'))
       => (/\ history' = <<>>
           /\ turnPoints' = 0
           /\ ~needsToPassPigs')]_vars

---------------------------------------------------------------------------
(* The player list edited during a match *)

\* C37: whenever the final round is active, the ids that are keys of
\* finalTurns are exactly the ids of the players listed - also after
\* addPlayer or removePlayer in the final round - and when the match is
\* Complete every listed player's own flag is true.
C37_FinalTurnsKeysAreRoster ==
    finalRound =>
        /\ ~finalTurns.isNull
        /\ DOMAIN finalTurns.m = Ids(players)
        /\ Complete => \A i \in 1..Len(players) : players[i].id \in flagged

\* C38: turn points never pass from one player to another: after every
\* step that makes another player current - a removePlayer in the middle of
\* a turn included - the turn points are 0 and the Turn Ledger is empty, so
\* a hold banks only points of rolls made in the holder's own turn.
C38_TurnPointsStayWithRoller ==
    [][players'[currentIndex' + 1].id # players[currentIndex + 1].id
       => (turnPoints' = 0 /\ history' = <<>>)]_vars

=============================================================================
